---- MODULE Spec2Model ----
(***************************************************************************)
(* Model of the serverless access-roles generator plugin                   *)
(* (src/src/index.ts, src/src/lib/utils.ts).                               *)
(*                                                                         *)
(* Strings are sequences of one-character strings, so that split(':'),     *)
(* split('-'), pascalCase and template interpolation are computed as the   *)
(* code computes them.  Literal text that the program only ever            *)
(* concatenates and never parses again (e.g. the postfix "AccessRole") is  *)
(* held as one item of such a sequence.  The JavaScript value undefined is *)
(* the one-item sequence Undefined; null is Null.                          *)
(***************************************************************************)
EXTENDS Integers, Sequences, FiniteSets, TLC

VARIABLES
    pc,                   \* position in the plugin lifecycle
    custom,               \* service.custom.accessRolesGenerator.exportPrefix
    accessRolesGenerator, \* this.accessRolesGenerator (exportPrefix, outDir, outFilename)
    requests,             \* listExports: the NextToken parameter of every request issued
    pages,                \* listExports: every page received, in order
    exports,              \* listExports: the local accumulator `exports`
    nextToken,            \* listExports: the local `nextToken`
    resourceExports,      \* this.resourceExports, an insertion-ordered map
    serviceResources,     \* this.service.resources (Resources, Outputs)
    generated,            \* what generateAccessRoles returned ({resources, outputs})
    describeResult,       \* what describeStacks answered in the export phase
    outFile,              \* the manifest file: <<>> when absent, <<manifest>> when written
    lastError             \* the message of the error that aborted the run ("" if none)

vars == <<pc, custom, accessRolesGenerator, requests, pages, exports, nextToken,
          resourceExports, serviceResources, generated, describeResult, outFile,
          lastError>>

----------------------------------------------------------------------------
(* Bounds of the model *)

MaxExports == 2
MaxPages == 2

----------------------------------------------------------------------------
(* JavaScript values and strings *)

Undefined == <<"\\undefined">>
Null == <<"\\null">>

\* `${x}`: template interpolation renders undefined as the text "undefined"
ToStr(x) == IF x = Undefined THEN <<"u","n","d","e","f","i","n","e","d">> ELSE x

\* x || y
OrElse(x, y) == IF x = Undefined \/ x = Null \/ x = <<>> THEN y ELSE x

\* arr[i] on a JavaScript array (0-based; any index outside 0..length-1 is undefined)
ArrayAt(arr, i) == IF i >= 0 /\ i < Len(arr) THEN arr[i + 1] ELSE Undefined

RECURSIVE SplitFrom(_, _, _, _)
SplitFrom(str, sep, i, cur) ==
    IF i > Len(str) THEN <<cur>>
    ELSE IF str[i] = sep THEN <<cur>> \o SplitFrom(str, sep, i + 1, <<>>)
    ELSE SplitFrom(str, sep, i + 1, Append(cur, str[i]))

\* str.split(sep) for a one-character separator
Split(str, sep) == SplitFrom(str, sep, 1, <<>>)

RECURSIVE Join(_, _)
\* arr.join(sep)
Join(arr, sep) ==
    IF Len(arr) = 0 THEN <<>>
    ELSE IF Len(arr) = 1 THEN arr[1]
    ELSE arr[1] \o sep \o Join(Tail(arr), sep)

LowerCase == <<"a","b","c","d","e","f","g","h","i","j","k","l","m",
               "n","o","p","q","r","s","t","u","v","w","x","y","z">>
UpperCase == <<"A","B","C","D","E","F","G","H","I","J","K","L","M",
               "N","O","P","Q","R","S","T","U","V","W","X","Y","Z">>

\* c.toUpperCase() for a single character
ToUpperCase(c) ==
    IF \E i \in 1..Len(LowerCase) : LowerCase[i] = c
    THEN UpperCase[CHOOSE i \in 1..Len(LowerCase) : LowerCase[i] = c]
    ELSE c

----------------------------------------------------------------------------
(* Program constants (utils.ts) *)

DEFAULT_EXPORT_PREFIX == <<"a","s","e","r">>
DEFAULT_OUT_DIR == <<"dist/data">>
DEFAULT_OUT_FILENAME == <<"service-outputs.json">>

sFunction == <<"f","u","n","c","t","i","o","n">>
sStateMachine == <<"s","t","a","t","e","M","a","c","h","i","n","e">>
sArn == <<"a","r","n">>
sDescription == <<"d","e","s","c","r","i","p","t","i","o","n">>

\* Errors are values: a thrown TypeError, and Error(message)
TypeError == <<"\\TypeError">>
Error(msg) == <<"\\Error: ">> \o msg

\* pascalCase: the first character upper-cased; str[0] of "" is undefined and
\* undefined.toUpperCase() throws a TypeError
pascalCase(str) ==
    IF Len(str) = 0 THEN TypeError
    ELSE <<ToUpperCase(str[1])>> \o Tail(str)

splitExportName(exportName) ==
    LET exportNameArray == Split(exportName, ":")
    IN [prefix    |-> ArrayAt(exportNameArray, 0),
        stackName |-> ArrayAt(exportNameArray, 1),
        name      |-> ArrayAt(exportNameArray, 2),
        type      |-> ArrayAt(exportNameArray, 3),
        resource  |-> ArrayAt(exportNameArray, 4)]

\* The key `${stackName}:${name}:${type}` of collectResourceExportsByPrefix
ResourceExportKey(stackName, name, type) ==
    ToStr(stackName) \o <<":">> \o ToStr(name) \o <<":">> \o ToStr(type)

IncorrectKeyError(key) == Error(<<"Incorrect resource export key: ">> \o key)
\* An arity test written for the five fields of an export name
KeyArityFive(exportKeyArray) == Len(exportKeyArray) = 5

\* The arity test of splitResourceExportKey
KeyArityOk(exportKeyArray) == Len(exportKeyArray) = 3

\* splitResourceExportKey: the three fields, or the error it throws
splitResourceExportKey(key) ==
    LET exportKeyArray == Split(key, ":")
    IN IF ~KeyArityOk(exportKeyArray)
       THEN [error |-> IncorrectKeyError(key), stackName |-> Undefined,
             name |-> Undefined, type |-> Undefined]
       ELSE [error |-> <<>>,
             stackName |-> ArrayAt(exportKeyArray, 0),
             name |-> ArrayAt(exportKeyArray, 1),
             type |-> ArrayAt(exportKeyArray, 2)]

RECURSIVE MapPascalCase(_)
MapPascalCase(words) ==
    IF Len(words) = 0 THEN <<>>
    ELSE <<pascalCase(words[1])>> \o MapPascalCase(Tail(words))

\* generateIamRoleResourceLogicalName with the default postfix, or TypeError
generateIamRoleResourceLogicalName(stackName, name, type) ==
    LET words == MapPascalCase(Split(stackName, "-"))
        formattedName == pascalCase(name)
        formattedType == pascalCase(type)
    IN IF (\E i \in 1..Len(words) : words[i] = TypeError)
          \/ formattedName = TypeError \/ formattedType = TypeError
       THEN TypeError
       ELSE Join(words, <<>>) \o formattedName \o formattedType \o <<"AccessRole">>

----------------------------------------------------------------------------
(* Insertion-ordered maps (JavaScript objects iterated with for..in):       *)
(* sequences of entries with pairwise distinct keys.                       *)

HasKey(map, key) == \E i \in 1..Len(map) : map[i].key = key
IndexOfKey(map, key) == CHOOSE i \in 1..Len(map) : map[i].key = key
Keys(map) == {map[i].key : i \in 1..Len(map)}
\* A collector that starts the entry afresh at every export of its key
CollectOneAfresh(exportPrefix, resources, export) ==
    LET n == splitExportName(export.Name)
        key == ResourceExportKey(n.stackName, n.name, n.type)
        fresh == [key |-> key, arn |-> <<>>, description |-> <<>>,
                  roleOutputKey |-> <<>>]
        created == IF HasKey(resources, key)
                   THEN [resources EXCEPT ![IndexOfKey(resources, key)] = fresh]
                   ELSE Append(resources, fresh)
        i == IndexOfKey(created, key)
        withArn == IF n.resource = sArn
                   THEN [created EXCEPT ![i].arn = export.Value]
                   ELSE created
    IN IF n.prefix = exportPrefix
       THEN IF n.resource = sDescription
            THEN [withArn EXCEPT ![i].description = export.Value]
            ELSE withArn
       ELSE resources

\* One iteration of the loop of collectResourceExportsByPrefix
CollectOne(exportPrefix, resources, export) ==
    LET n == splitExportName(export.Name)
        key == ResourceExportKey(n.stackName, n.name, n.type)
        created == IF HasKey(resources, key) THEN resources
                   ELSE Append(resources, [key |-> key, arn |-> <<>>,
                                           description |-> <<>>,
                                           roleOutputKey |-> <<>>])
        i == IndexOfKey(created, key)
        withArn == IF n.resource = sArn
                   THEN [created EXCEPT ![i].arn = export.Value]
                   ELSE created
    IN IF n.prefix = exportPrefix
       THEN IF n.resource = sDescription
            THEN [withArn EXCEPT ![i].description = export.Value]
            ELSE withArn
       ELSE resources

RECURSIVE CollectFrom(_, _, _, _)
CollectFrom(exportPrefix, exportList, i, resources) ==
    IF i > Len(exportList) THEN resources
    ELSE CollectFrom(exportPrefix, exportList, i + 1,
                     CollectOne(exportPrefix, resources, exportList[i]))

collectResourceExportsByPrefix(exportPrefix, exportList) ==
    CollectFrom(exportPrefix, exportList, 1, <<>>)

----------------------------------------------------------------------------
(* Policy statements, role and output templates *)

defaultLambdaFunctionPolicyStatements(functionArn) ==
    << [Effect |-> "Allow", Action |-> <<"lambda:InvokeFunction">>,
        Resource |-> functionArn] >>

\* arn.split(':')[-1]
StateMachineName(arn) == ArrayAt(Split(arn, ":"), -1)

ExecutionArn(name) ==
    <<"arn:aws:states:${AWS::Region}:${AWS::AccountId}:execution:">>
        \o ToStr(name) \o <<":*">>
ExpressArn(name) ==
    <<"arn:aws:states:${AWS::Region}:${AWS::AccountId}:express:">>
        \o ToStr(name) \o <<":*:*">>

defaultStateMachinePolicyStatements(arn) ==
    LET name == StateMachineName(arn)
    IN << [Effect |-> "Allow",
           Action |-> <<"states:ListExecutions", "states:StartExecution">>,
           Resource |-> arn],
          [Effect |-> "Allow", Action |-> <<"states:DescribeExecution">>,
           Resource |-> << [FnSub |-> ExecutionArn(name)],
                           [FnSub |-> ExpressArn(name)] >>],
          [Effect |-> "Allow", Action |-> <<"states:StopExecution">>,
           Resource |-> [FnSub |-> ExecutionArn(name)]] >>
\* A dispatch whose default arm grants the lambda statement
generatePolicyStatementsLambdaByDefault(arn, type) ==
    IF type = sStateMachine THEN defaultStateMachinePolicyStatements(arn)
    ELSE defaultLambdaFunctionPolicyStatements(arn)

generatePolicyStatementsByType(arn, type) ==
    IF type = sFunction THEN defaultLambdaFunctionPolicyStatements(arn)
    ELSE IF type = sStateMachine THEN defaultStateMachinePolicyStatements(arn)
    ELSE <<>>

PrincipalAccountId == <<"1","2","3">>
PrincipalRoleName == <<"r","o","l","e">>
ExternalId == <<"e","x","t">>

generateAccessRoleResource(stackName, name, policyStatements) ==
    [Type |-> "AWS::IAM::Role",
     Properties |->
       [RoleName |-> stackName \o <<"-">> \o name,
        Description |-> <<"Access role to ">> \o name \o <<" of ">> \o stackName,
        AssumeRolePolicyDocument |->
          [Version |-> "2012-10-17",
           Statement |->
             [Effect |-> "Allow", Action |-> <<"sts:AssumeRole">>,
              Principal |-> [AWS |-> <<"arn:aws:sts::">> \o PrincipalAccountId
                                       \o <<":assumed-role/">> \o PrincipalRoleName
                                       \o <<"/CognitoIdentityCredentials">>],
              Condition |-> [StringEquals |-> [ExternalId |-> ExternalId]]]],
        Policies |-> << [PolicyName |-> "EmbeddedInlinePolicy",
                         PolicyDocument |-> [Version |-> "2012-10-17",
                                             Statement |-> policyStatements]] >>]]

generateAccessRoleOutput(stackName, name, logicalName) ==
    [Description |-> <<"Arn of ">> \o stackName \o <<"-">> \o name
                       \o <<" access role">>,
     Value |-> [FnGetAtt |-> <<logicalName, <<"Arn">> >>]]
\* An output keyed by the bare logical name
OutputKeyWithoutSuffix(logicalName) == logicalName

\* `${logicalName}Arn`
OutputKeyOf(logicalName) == logicalName \o <<"Arn">>

----------------------------------------------------------------------------
(* generateAccessRoles (index.ts): the for..in loop over resourceExports.   *)
(* The fold carries the two locals, the map being mutated in place, and    *)
(* the error that ended the loop ("" while none was thrown).               *)

EmptyObject == [k \in {} |-> <<>>]

\* obj[key] = value on a plain object
Put(obj, key, value) == (key :> value) @@ obj

GenerateOne(acc, i) ==
    LET resource == acc.map[i]
        k == splitResourceExportKey(resource.key)
        logicalName == generateIamRoleResourceLogicalName(k.stackName, k.name, k.type)
        outputKey == OutputKeyOf(logicalName)
    IN IF Len(k.error) > 0 THEN [acc EXCEPT !.error = k.error]
       ELSE IF logicalName = TypeError THEN [acc EXCEPT !.error = TypeError]
       ELSE [resources |-> Put(acc.resources, logicalName,
                               generateAccessRoleResource(k.stackName, k.name,
                                   generatePolicyStatementsByType(resource.arn, k.type))),
             outputs |-> Put(acc.outputs, outputKey,
                             generateAccessRoleOutput(k.stackName, k.name, logicalName)),
             map |-> [acc.map EXCEPT ![i].roleOutputKey = outputKey],
             error |-> <<>>]

RECURSIVE GenerateFrom(_, _)
GenerateFrom(acc, i) ==
    IF i > Len(acc.map) \/ Len(acc.error) > 0 THEN acc
    ELSE GenerateFrom(GenerateOne(acc, i), i + 1)

generateAccessRoles(map) ==
    GenerateFrom([resources |-> EmptyObject, outputs |-> EmptyObject,
                  map |-> map, error |-> <<>>], 1)

----------------------------------------------------------------------------
(* collectAccessRolesArnFromStackOutputs (utils.ts) *)

MissingOutputError(roleOutputKey) ==
    Error(<<"Unable to find output: ">> \o roleOutputKey)

\* stackOutputs.filter((output) => output.OutputKey === roleOutputKey)
FilterOutputs(stackOutputs, roleOutputKey) ==
    SelectSeq(stackOutputs, LAMBDA output : output.OutputKey = roleOutputKey)
\* A grouping that forgets to spread the stack's earlier entries
PutResourceOutputAlone(resourceOutputs, stackName, fullName, entry) ==
    Put(resourceOutputs, stackName, Put(EmptyObject, fullName, entry))

\* { ...resourceOutputs[stackName], ...temp } stored under stackName
PutResourceOutput(resourceOutputs, stackName, fullName, entry) ==
    LET old == IF stackName \in DOMAIN resourceOutputs
               THEN resourceOutputs[stackName] ELSE EmptyObject
    IN Put(resourceOutputs, stackName, Put(old, fullName, entry))
\* A resolution that silently drops a resource whose output is absent
ResolveOneSkipsMissing(stackOutputs, acc, resource) ==
    LET stackName == ArrayAt(Split(resource.key, ":"), 0)
        fullName == ArrayAt(Split(resource.key, ":"), 1)
        found == FilterOutputs(stackOutputs, resource.roleOutputKey)
    IN IF Len(found) = 0 THEN acc
       ELSE [resourceOutputs |->
                PutResourceOutput(acc.resourceOutputs, stackName, fullName,
                    [arn |-> resource.arn, description |-> resource.description,
                     role |-> found[1].OutputValue]),
             error |-> <<>>]

ResolveOne(stackOutputs, acc, resource) ==
    LET stackName == ArrayAt(Split(resource.key, ":"), 0)
        fullName == ArrayAt(Split(resource.key, ":"), 1)
        found == FilterOutputs(stackOutputs, resource.roleOutputKey)
    IN IF Len(found) = 0
       THEN [acc EXCEPT !.error = MissingOutputError(resource.roleOutputKey)]
       ELSE [resourceOutputs |->
                PutResourceOutput(acc.resourceOutputs, stackName, fullName,
                    [arn |-> resource.arn, description |-> resource.description,
                     role |-> found[1].OutputValue]),
             error |-> <<>>]

RECURSIVE ResolveFrom(_, _, _, _)
ResolveFrom(stackOutputs, map, i, acc) ==
    IF i > Len(map) \/ Len(acc.error) > 0 THEN acc
    ELSE ResolveFrom(stackOutputs, map, i + 1, ResolveOne(stackOutputs, acc, map[i]))

collectAccessRolesArnFromStackOutputs(stackOutputs, map) ==
    ResolveFrom(stackOutputs, map, 1, [resourceOutputs |-> EmptyObject, error |-> <<>>])

----------------------------------------------------------------------------
(* The environment: what the provider may answer *)

Str_ab == <<"a","-","b">>
Str_aB == <<"a","B">>
ArnValue == <<"r",":","m">>
OtherArnValue == <<"q">>
DescriptionValue == <<"d">>
CustomPrefix == <<"x">>

ExportName(fields) == Join(fields, <<":">>)

\* The exports other stacks may have published
ExportDomain ==
    { [Name |-> ExportName(<<DEFAULT_EXPORT_PREFIX, Str_ab, <<"f">>, sFunction, sArn>>),
       Value |-> ArnValue],
      [Name |-> ExportName(<<DEFAULT_EXPORT_PREFIX, Str_ab, <<"f">>, sFunction, sArn>>),
       Value |-> OtherArnValue],
      [Name |-> ExportName(<<DEFAULT_EXPORT_PREFIX, Str_ab, <<"f">>, sFunction, sDescription>>),
       Value |-> DescriptionValue],
      [Name |-> ExportName(<<DEFAULT_EXPORT_PREFIX, Str_aB, <<"f">>, sFunction, sArn>>),
       Value |-> ArnValue],
      [Name |-> ExportName(<<DEFAULT_EXPORT_PREFIX, Str_ab, <<"f">>, sStateMachine, sArn>>),
       Value |-> ArnValue],
      [Name |-> ExportName(<<DEFAULT_EXPORT_PREFIX, Str_ab, <<"g">>, <<"t","a","b","l","e">>, sArn>>),
       Value |-> ArnValue],
      [Name |-> ExportName(<<DEFAULT_EXPORT_PREFIX, Str_ab, <<"f">>, sFunction, <<"o","t","h","e","r">> >>),
       Value |-> ArnValue],
      [Name |-> ExportName(<<CustomPrefix, Str_ab, <<"f">>, sFunction, sArn>>),
       Value |-> ArnValue],
      [Name |-> ExportName(<<DEFAULT_EXPORT_PREFIX, <<>>, <<"f">> >>),
       Value |-> ArnValue] }

RECURSIVE SeqsUpTo(_, _)
\* All sequences over S of length at most n
SeqsUpTo(S, n) ==
    IF n = 0 THEN {<<>>}
    ELSE LET shorter == SeqsUpTo(S, n - 1)
         IN shorter \cup {Append(q, x) : q \in {r \in shorter : Len(r) = n - 1}, x \in S}

\* The provider's pagination cursor after its n-th page: a different one per page
TokenAfter(n) == [i \in 1..n |-> "t"]

\* The templates the service may declare before the plugin runs
OriginalOutputKey ==
    OutputKeyOf(generateIamRoleResourceLogicalName(Str_ab, <<"f">>, sFunction))
ServiceResourcesDomain ==
    { [Resources |-> <<>>, Outputs |-> <<>>],
      [Resources |-> << (<<"Table">> :> [Type |-> "AWS::DynamoDB::Table"]) >>,
       Outputs |-> << (OriginalOutputKey :>
                         [Description |-> <<"declared by the service">>,
                          Value |-> [FnGetAtt |-> << <<"Table">>, <<"Arn">> >>]]) >>] }

\* this.service.resources.Resources || {}
ObjectOrEmpty(opt) == IF Len(opt) = 0 THEN EmptyObject ELSE opt[1]

RECURSIVE SetToSeq(_)
SetToSeq(S) ==
    IF S = {} THEN <<>>
    ELSE LET x == CHOOSE y \in S : TRUE IN <<x>> \o SetToSeq(S \ {x})

\* The outputs CloudFormation reports for a deployed template's output keys
DeployedOutputs(keys) ==
    SetToSeq({ [OutputKey |-> k, OutputValue |-> <<"arn:aws:iam::role/">> \o k] : k \in keys })

----------------------------------------------------------------------------
(* The plugin *)

Init ==
    /\ pc = "constructed"
    /\ custom \in {Undefined, CustomPrefix}
    /\ accessRolesGenerator = [exportPrefix |-> Undefined, outDir |-> Undefined,
                               outFilename |-> Undefined]
    /\ requests = <<>>
    /\ pages = <<>>
    /\ exports = <<>>
    /\ nextToken = Null
    /\ resourceExports = <<>>
    /\ serviceResources \in ServiceResourcesDomain
    /\ generated = [resources |-> EmptyObject, outputs |-> EmptyObject]
    /\ describeResult = [kind |-> "none", Outputs |-> <<>>]
    /\ outFile = <<>>
    /\ lastError = <<>>
\* A listExports that never passes the token on
RequestParamsNoToken(token) == Null

\* nextToken ? { NextToken: nextToken } : {}
RequestParams(token) == IF token = Null \/ token = <<>> THEN Null ELSE token

\* initialize, up to the first await: the configuration defaults are applied and
\* listExports issues its first request
Initialize ==
    /\ pc = "constructed"
    /\ accessRolesGenerator' =
         [exportPrefix |-> OrElse(custom, DEFAULT_EXPORT_PREFIX),
          outDir |-> DEFAULT_OUT_DIR, outFilename |-> DEFAULT_OUT_FILENAME]
    /\ requests' = Append(requests, RequestParams(nextToken))
    /\ pc' = "listing"
    /\ UNCHANGED <<custom, pages, exports, nextToken, resourceExports,
                   serviceResources, generated, describeResult, outFile, lastError>>

\* while (nextToken)
LoopAgain(token) == token # Null

\* listExports receives a page: the body of the do/while loop after the await.
\* With no token the loop ends, listExports returns and initialize builds the map.
ListExportsPage ==
    /\ pc = "listing"
    /\ \E pageExports \in SeqsUpTo(ExportDomain, MaxExports - Len(exports)),
          token \in {TokenAfter(Len(pages) + 1), Undefined} :
         /\ token # Undefined => Len(pages) + 1 < MaxPages
         /\ LET data == [Exports |-> pageExports, NextToken |-> token]
                all == exports \o data.Exports
                next == OrElse(data.NextToken, Null)
            IN /\ pages' = Append(pages, data)
               /\ exports' = all
               /\ nextToken' = next
               /\ IF LoopAgain(next)
                  THEN /\ requests' = Append(requests, RequestParams(next))
                       /\ pc' = "listing"
                       /\ UNCHANGED resourceExports
                  ELSE /\ resourceExports' =
                            collectResourceExportsByPrefix(
                                accessRolesGenerator.exportPrefix, all)
                       /\ pc' = "initialized"
                       /\ UNCHANGED requests
    /\ UNCHANGED <<custom, accessRolesGenerator, serviceResources, generated,
                   describeResult, outFile, lastError>>

\* The request is rejected, or resolves to no data: listExports logs and rethrows,
\* initialize never gets a list
ListExportsFails ==
    /\ pc = "listing"
    /\ \E rejected \in BOOLEAN :
         lastError' = IF rejected THEN Error(<<"listExports rejected">>)
                      ELSE Error(<<"Unable to list exports">>)
    /\ pc' = "listFailed"
    /\ UNCHANGED <<custom, accessRolesGenerator, requests, pages, exports, nextToken,
                   resourceExports, serviceResources, generated, describeResult,
                   outFile>>

\* The hook before:package:finalize
UpdateServerlessResources ==
    /\ pc = "initialized"
    /\ LET originalResources == ObjectOrEmpty(serviceResources.Resources)
           originalOutputs == ObjectOrEmpty(serviceResources.Outputs)
           r == generateAccessRoles(resourceExports)
       IN /\ resourceExports' = r.map
          /\ IF Len(r.error) > 0
             THEN /\ pc' = "generateFailed"
                  /\ lastError' = r.error
                  /\ UNCHANGED <<serviceResources, generated>>
             ELSE /\ pc' = "generated"
                  /\ generated' = [resources |-> r.resources, outputs |-> r.outputs]
                  /\ serviceResources' =
                       [Resources |-> << r.resources @@ originalResources >>,
                        Outputs |-> << r.outputs @@ originalOutputs >>]
                  /\ UNCHANGED lastError
    /\ UNCHANGED <<custom, accessRolesGenerator, requests, pages, exports, nextToken,
                   describeResult, outFile>>

\* exportToFile: the file is (over)written with the serialised manifest
exportToFile(data) == <<data>>

\* The body of export's try block once describeStacks has answered `data`
ExportWith(data) ==
    IF data.kind = "rejected"
    THEN [error |-> Error(<<"describeStacks rejected">>), file |-> outFile]
    ELSE IF data.kind = "noOutputs"
    THEN [error |-> Error(<<"Unable to describe stack: service">>), file |-> outFile]
    ELSE LET r == collectAccessRolesArnFromStackOutputs(data.Outputs, resourceExports)
         IN IF Len(r.error) > 0
            THEN [error |-> r.error, file |-> outFile]
            ELSE [error |-> <<>>, file |-> exportToFile(r.resourceOutputs)]

\* What describeStacks may answer: a rejection, a stack without Outputs, or the
\* outputs of the deployed template, of which at most one may be absent
DescribeAnswers ==
    LET keys == DOMAIN ObjectOrEmpty(serviceResources.Outputs)
    IN {[kind |-> "rejected", Outputs |-> <<>>], [kind |-> "noOutputs", Outputs |-> <<>>]}
       \cup {[kind |-> "outputs", Outputs |-> DeployedOutputs(keys)]}
       \cup {[kind |-> "outputs", Outputs |-> DeployedOutputs(keys \ {k})] : k \in keys}

\* The hook after:deploy:deploy
Export ==
    /\ pc \in {"initialized", "generated"}
    /\ \E data \in DescribeAnswers :
         LET r == ExportWith(data)
         IN /\ describeResult' = data
            /\ outFile' = r.file
            /\ lastError' = r.error
            /\ pc' = IF Len(r.error) > 0 THEN "exportFailed" ELSE "exported"
    /\ UNCHANGED <<custom, accessRolesGenerator, requests, pages, exports, nextToken,
                   resourceExports, serviceResources, generated>>

Next ==
    \/ Initialize
    \/ ListExportsPage
    \/ ListExportsFails
    \/ UpdateServerlessResources
    \/ Export

Spec == Init /\ [][Next]_vars

----------------------------------------------------------------------------
(* Properties *)

Listed == pc \in {"initialized", "generated", "generateFailed", "exported", "exportFailed"}

RECURSIVE ConcatExports(_)
ConcatExports(ps) ==
    IF Len(ps) = 0 THEN <<>> ELSE ps[1].Exports \o ConcatExports(Tail(ps))

OutputKeysOf(outputs) == {outputs[i].OutputKey : i \in 1..Len(outputs)}

\* C10: listExports issues its requests one at a time, the first without a token
\* and each later one with the NextToken of the previous page; it goes on exactly
\* while the last page carried a token; once a page comes without one it returns
\* the concatenation, in page order, of every page's Exports, from which the map
\* is built; when a request fails or yields no data the error is propagated and
\* the map is not built.
C10_Pagination ==
    /\ Len(requests) <= Len(pages) + 1
    /\ \A i \in 1..Len(requests) :
         requests[i] = IF i = 1 THEN Null ELSE pages[i - 1].NextToken
    /\ \A i \in 1..Len(pages) : i < Len(pages) => pages[i].NextToken # Undefined
    /\ pc = "listing" =>
         /\ Len(requests) = Len(pages) + 1
         /\ Len(pages) > 0 => pages[Len(pages)].NextToken # Undefined
    /\ Listed =>
         /\ Len(requests) = Len(pages)
         /\ pages[Len(pages)].NextToken = Undefined
         /\ exports = ConcatExports(pages)
    /\ pc = "initialized" =>
         resourceExports =
           collectResourceExportsByPrefix(accessRolesGenerator.exportPrefix,
                                          ConcatExports(pages))
    /\ pc = "listFailed" =>
         /\ Len(lastError) > 0
         /\ Len(requests) = Len(pages) + 1
         /\ resourceExports = <<>>

\* Two pages were fetched, both with exports, and the map was built from both
C10_Witness ==
    /\ pc = "initialized"
    /\ Len(pages) = 2
    /\ Len(pages[1].Exports) > 0
    /\ Len(pages[2].Exports) > 0
    /\ Len(resourceExports) = 2

\* C1: in the export phase, when some PendingResource's roleOutputKey matches no
\* OutputKey of the described stack, or describeStacks fails or reports no
\* outputs, the phase aborts with an error (naming a missing key in the first
\* case) and no manifest file is written, not even a partial one.
C1_MissingOutputAborts ==
    pc \in {"exported", "exportFailed"} =>
      LET missing == {i \in 1..Len(resourceExports) :
                        resourceExports[i].roleOutputKey
                          \notin OutputKeysOf(describeResult.Outputs)}
      IN /\ describeResult.kind # "outputs" =>
              pc = "exportFailed" /\ outFile = <<>> /\ Len(lastError) > 0
         /\ (describeResult.kind = "outputs" /\ missing # {}) =>
              /\ pc = "exportFailed"
              /\ outFile = <<>>
              /\ \E i \in missing :
                   lastError = <<"\\Error: ", "Unable to find output: ">>
                                 \o resourceExports[i].roleOutputKey

\* The first resource's output is there, the second's is not: the run failed
C1_Witness ==
    /\ pc = "exportFailed"
    /\ describeResult.kind = "outputs"
    /\ Len(resourceExports) = 2
    /\ resourceExports[1].roleOutputKey \in OutputKeysOf(describeResult.Outputs)
    /\ resourceExports[2].roleOutputKey \notin OutputKeysOf(describeResult.Outputs)
    /\ Len(resourceExports[2].roleOutputKey) > 0

MergedResources == ObjectOrEmpty(serviceResources.Resources)
MergedOutputs == ObjectOrEmpty(serviceResources.Outputs)

\* C8: after updateServerlessResources every generated role L has exactly one
\* generated output, keyed L + "Arn", whose Value references the Arn attribute
\* of L; every PendingResource's roleOutputKey is non-empty and is the key of an
\* output of the merged template; roles and outputs are in the template's
\* Resources and Outputs.  Before that phase every roleOutputKey is "".
C8_RolesAndOutputs ==
    /\ pc = "generated" =>
         /\ \A L \in DOMAIN generated.resources :
              /\ (L \o <<"Arn">>) \in DOMAIN generated.outputs
              /\ {k \in DOMAIN generated.outputs :
                    generated.outputs[k].Value = [FnGetAtt |-> <<L, <<"Arn">> >>]}
                   = {L \o <<"Arn">>}
              /\ L \in DOMAIN MergedResources
              /\ MergedResources[L] = generated.resources[L]
         /\ \A k \in DOMAIN generated.outputs :
              /\ k \in DOMAIN MergedOutputs
              /\ MergedOutputs[k] = generated.outputs[k]
              /\ \E L \in DOMAIN generated.resources : k = L \o <<"Arn">>
         /\ \A i \in 1..Len(resourceExports) :
              /\ Len(resourceExports[i].roleOutputKey) > 0
              /\ resourceExports[i].roleOutputKey \in DOMAIN generated.outputs
              /\ resourceExports[i].roleOutputKey \in DOMAIN MergedOutputs
    /\ pc \in {"constructed", "listing", "initialized"} =>
         \A i \in 1..Len(resourceExports) : resourceExports[i].roleOutputKey = <<>>

\* Two roles were generated into a template that declared entries of its own
C8_Witness ==
    /\ pc = "generated"
    /\ Cardinality(DOMAIN generated.resources) = 2
    /\ <<"Table">> \in DOMAIN MergedResources
    /\ OriginalOutputKey \in DOMAIN generated.outputs

KeyOfExport(export) ==
    LET n == splitExportName(export.Name)
    IN ResourceExportKey(n.stackName, n.name, n.type)

MatchingExports ==
    {i \in 1..Len(exports) :
       splitExportName(exports[i].Name).prefix = accessRolesGenerator.exportPrefix}

StringsInState ==
    {exports[i].Name : i \in 1..Len(exports)}
      \cup {exports[i].Value : i \in 1..Len(exports)}
      \cup Keys(resourceExports)

\* The text that `${x}` leaves for a field x
Rendered(x) == IF x = Undefined THEN <<"u","n","d","e","f","i","n","e","d">> ELSE x

StackAndName(key) ==
    LET k == splitResourceExportKey(key) IN <<k.stackName, k.name>>

Manifest == outFile[1]

ManifestEntries ==
    UNION {{<<st, nm>> : nm \in DOMAIN Manifest[st]} : st \in DOMAIN Manifest}

\* The value of the described stack's output with the given key
OutputValueOf(key) ==
    LET i == CHOOSE n \in 1..Len(describeResult.Outputs) :
                 describeResult.Outputs[n].OutputKey = key
    IN describeResult.Outputs[i].OutputValue

\* The manifest entry that a PendingResource yields
EntryOf(resource) ==
    [arn |-> resource.arn, description |-> resource.description,
     role |-> OutputValueOf(resource.roleOutputKey)]

\* C2 (as stated): when every roleOutputKey is the OutputKey of a supplied
\* output, the manifest holds exactly one entry per PendingResource (as many
\* entries in all as the map has keys), each under its own stackName and
\* resourceName with that resource's arn, description and role output value.
C2_OneEntryPerResourceAsStated ==
    pc = "exported" =>
      /\ Cardinality(ManifestEntries) = Len(resourceExports)
      /\ \A i \in 1..Len(resourceExports) :
           LET p == StackAndName(resourceExports[i].key)
           IN /\ p \in ManifestEntries
              /\ Manifest[p[1]][p[2]] = EntryOf(resourceExports[i])

\* C2 (amended): when every roleOutputKey is the OutputKey of a supplied output,
\* the manifest holds exactly one entry per distinct (stackName, resourceName)
\* pair of the map's keys, under that stackName and resourceName; the entry
\* carries the arn, description and role output value of the last PendingResource
\* of that pair in the map's order.  The number of entries equals the number of
\* keys when no two keys share stackName and resourceName.
C2_OneEntryPerStackAndName ==
    pc = "exported" =>
      /\ ManifestEntries = {StackAndName(k) : k \in Keys(resourceExports)}
      /\ \A i \in 1..Len(resourceExports) :
           LET p == StackAndName(resourceExports[i].key)
               last == \A j \in 1..Len(resourceExports) :
                          StackAndName(resourceExports[j].key) = p => j <= i
           IN last => Manifest[p[1]][p[2]] = EntryOf(resourceExports[i])
      /\ (\A i, j \in 1..Len(resourceExports) :
            StackAndName(resourceExports[i].key) = StackAndName(resourceExports[j].key)
              => i = j)
           => Cardinality(ManifestEntries) = Len(resourceExports)

\* A manifest written for two resources of one stack with different names
C2_Witness ==
    /\ pc = "exported"
    /\ Len(resourceExports) = 2
    /\ Cardinality(ManifestEntries) = 2
    /\ Cardinality(DOMAIN Manifest) = 1

\* The key, arn and description of every entry of a map
Entries(map) ==
    {[key |-> map[i].key, arn |-> map[i].arn, description |-> map[i].description] :
       i \in 1..Len(map)}

Permuted(list, f) == [i \in 1..Len(list) |-> list[f[i]]]

\* The lists C3 speaks of: 5-field names with the configured prefix, no
\* (stackName, resourceName, resourceType, field) with field arn or description twice
WellFormedExports ==
    /\ \A i \in 1..Len(exports) :
         /\ Len(Split(exports[i].Name, ":")) = 5
         /\ i \in MatchingExports
    /\ \A i, j \in 1..Len(exports) :
         (/\ exports[i].Name = exports[j].Name
          /\ splitExportName(exports[i].Name).resource \in {sArn, sDescription}) => i = j

Triples ==
    {<<n.stackName, n.name, n.type>> :
       n \in {splitExportName(exports[i].Name) : i \in 1..Len(exports)}}

\* C3: for a list of 5-field exports with the configured prefix in which no
\* (stackName, resourceName, resourceType, field) with field arn or description
\* occurs twice, collectResourceExportsByPrefix returns one PendingResource per
\* distinct (stackName, resourceName, resourceType), and the same keys, arns and
\* descriptions for every permutation of the list.
C3_OrderIndependent ==
    (pc = "initialized" /\ WellFormedExports) =>
      /\ Len(resourceExports) = Cardinality(Triples)
      /\ Keys(resourceExports) = {ResourceExportKey(t[1], t[2], t[3]) : t \in Triples}
      /\ Cardinality(Keys(resourceExports)) = Cardinality(Triples)
      /\ \A f \in Permutations(1..Len(exports)) :
           Entries(collectResourceExportsByPrefix(accessRolesGenerator.exportPrefix,
                                                  Permuted(exports, f)))
             = Entries(resourceExports)

\* The arn and the description of one resource arrived, description first
C3_Witness ==
    /\ pc = "initialized"
    /\ WellFormedExports
    /\ Len(exports) = 2
    /\ splitExportName(exports[1].Name).resource = sDescription
    /\ splitExportName(exports[2].Name).resource = sArn
    /\ Len(resourceExports) = 1
    /\ Len(resourceExports[1].arn) > 0
    /\ Len(resourceExports[1].description) > 0

\* The logical name of the role that carries a PendingResource's roleOutputKey
RoleOf(resource) ==
    CHOOSE L \in DOMAIN generated.resources : L \o <<"Arn">> = resource.roleOutputKey

\* A PendingResource whose role was not overwritten by a later one
OwnsRole(i) ==
    \A j \in 1..Len(resourceExports) :
       resourceExports[j].roleOutputKey = resourceExports[i].roleOutputKey => j <= i

StatementsOf(L) == generated.resources[L].Properties.Policies[1].PolicyDocument.Statement

\* C7: generatePolicyStatementsByType gives exactly one Allow statement
\* (lambda:InvokeFunction on the arn itself) for type "function", exactly three
\* Allow statements for "stateMachine" and none for any other type; a role
\* generated with no statements still has its single inline policy
\* EmbeddedInlinePolicy, with an empty Statement list.
C7_StatementsByType ==
    pc = "generated" =>
      \A i \in 1..Len(resourceExports) :
        OwnsRole(i) =>
          LET type == splitResourceExportKey(resourceExports[i].key).type
              role == generated.resources[RoleOf(resourceExports[i])]
              st == StatementsOf(RoleOf(resourceExports[i]))
          IN /\ Len(role.Properties.Policies) = 1
             /\ role.Properties.Policies[1].PolicyName = "EmbeddedInlinePolicy"
             /\ type = sFunction =>
                  st = << [Effect |-> "Allow", Action |-> <<"lambda:InvokeFunction">>,
                           Resource |-> resourceExports[i].arn] >>
             /\ type = sStateMachine =>
                  Len(st) = 3 /\ \A n \in 1..3 : st[n].Effect = "Allow"
             /\ type \notin {sFunction, sStateMachine} => st = <<>>

\* A role was generated for a resource of a type the dispatch does not know,
\* next to one for a state machine
C7_Witness ==
    /\ pc = "generated"
    /\ \E i, j \in 1..Len(resourceExports) :
         /\ splitResourceExportKey(resourceExports[i].key).type = <<"t","a","b","l","e">>
         /\ StatementsOf(RoleOf(resourceExports[i])) = <<>>
         /\ splitResourceExportKey(resourceExports[j].key).type = sStateMachine
         /\ Len(StatementsOf(RoleOf(resourceExports[j]))) = 3

\* C4: generateAccessRoles produces one GeneratedRole per PendingResource:
\* distinct PendingResource keys get distinct logical names, so there are as many
\* generated roles (and outputs) as PendingResources and no two PendingResources
\* share a roleOutputKey.
C4_OneRolePerResource ==
    pc = "generated" =>
      /\ Cardinality(DOMAIN generated.resources) = Len(resourceExports)
      /\ Cardinality(DOMAIN generated.outputs) = Len(resourceExports)
      /\ \A i, j \in 1..Len(resourceExports) :
           resourceExports[i].roleOutputKey = resourceExports[j].roleOutputKey => i = j

\* An export that C5 says is ignored
Ignorable(export) ==
    LET n == splitExportName(export.Name)
    IN \/ n.prefix # accessRolesGenerator.exportPrefix
       \/ n.resource \notin {sArn, sDescription}

RemoveAt(list, i) == SubSeq(list, 1, i - 1) \o SubSeq(list, i + 1, Len(list))

\* C5: collectResourceExportsByPrefix ignores every export whose prefix differs
\* from the configured one and every export whose field is neither "arn" nor
\* "description": with such an export anywhere in the list the returned map is
\* the one returned without it (no key created, no arn or description altered).
C5_IgnoredExports ==
    pc = "initialized" =>
      \A i \in 1..Len(exports) :
        Ignorable(exports[i]) =>
          Entries(collectResourceExportsByPrefix(accessRolesGenerator.exportPrefix,
                                                 RemoveAt(exports, i)))
            = Entries(resourceExports)

LastSegment(arn) == LET parts == Split(arn, ":") IN parts[Len(parts)]

\* C6: for type "stateMachine" the describe-execution and stop-execution
\* statements target ARNs built from the last colon-separated segment of the
\* input ARN: the execution ARN ends in execution:<name>:*, the express ARN in
\* express:<name>:*:*, and stop-execution has the same execution ARN.
C6_StateMachineName ==
    pc = "generated" =>
      \A i \in 1..Len(resourceExports) :
        (/\ OwnsRole(i)
         /\ splitResourceExportKey(resourceExports[i].key).type = sStateMachine) =>
          LET st == StatementsOf(RoleOf(resourceExports[i]))
              name == LastSegment(resourceExports[i].arn)
              execution == <<"arn:aws:states:${AWS::Region}:${AWS::AccountId}:execution:">>
                             \o name \o <<":*">>
              express == <<"arn:aws:states:${AWS::Region}:${AWS::AccountId}:express:">>
                           \o name \o <<":*:*">>
          IN /\ st[2].Resource = << [FnSub |-> execution], [FnSub |-> express] >>
             /\ st[3].Resource = [FnSub |-> execution]

====
